---------------------------- MODULE Spec2Model ----------------------------
(***************************************************************************)
(* A model of Practice/CNN/cnn.ipynb: the CNN module (two                  *)
(* convolution+ReLU+max-pool blocks and one linear layer), the training    *)
(* cell (num_epoch passes over a shuffled loader; forward, loss,           *)
(* zero_grad, backward, optimizer.step per batch), model.eval() and the    *)
(* evaluation cell (a no_grad pass that counts correct predictions and     *)
(* prints the accuracy).                                                   *)
(*                                                                         *)
(* Tensor shapes are modelled exactly (the layer arithmetic of the         *)
(* notebook's constructor arguments).  Tensor contents are modelled one    *)
(* abstract value per row (per image): floating-point weights, features    *)
(* and gradients are drawn from small finite domains, and the library's    *)
(* arithmetic is a fixed function on them.  A library call that raises     *)
(* ends the run; which call raises is a nondeterministic choice.           *)
(***************************************************************************)
EXTENDS Integers, Sequences, FiniteSets

(* ------------------------------ bounds --------------------------------- *)
\* The notebook draws batches of batch_size = 4 from the 60000 / 10000
\* images of MNIST.  The model keeps the name and scales the three numbers
\* down: every property below is stated in terms of the names, and the
\* sizes are chosen so that a pass over a loader has a full and a partial
\* batch.
batch_size == 2
MaxTrain == 3
MaxTest == 3
\* Number of abstract levels of a parameter / gradient value.
ParamLevels == 3
\* Number of abstract levels of a pixel / feature value of one image.
FeatLevels == 2
\* Shapes tried on the forward pass alone: batch sizes 1..MaxBatch, channel
\* counts 1..MaxChannels, heights and widths 1..MaxDim.
MaxBatch == 2
MaxChannels == 2
MaxDim == 56

(* ------------------------ the notebook's constants --------------------- *)
num_classes == 10
num_epoch == 10
\* nn.Conv2d(_, _, kernel_size=5, stride=1, padding=2)
kernel_size == 5
stride == 1
padding == 2
\* nn.MaxPool2d(kernel_size=2, stride=2)
pool_kernel_size == 2
pool_stride == 2
\* channels: Conv2d(1, 16, ...), Conv2d(16, 32, ...)
in_channels == 1
layer1_channels == 16
layer2_channels == 32
\* nn.Linear(7*7*32, num_classes)
fc1_in_features == 7 * 7 * 32
\* transforms.ToTensor() on an MNIST image: 1 x 28 x 28
mnist_side == 28

(* ------------------------------ tensors -------------------------------- *)
\* A tensor: its shape and one abstract value per row (index of dimension 0).
\* requires_grad: whether the tensor is attached to an autograd graph.
Tensor(shape, data) ==
    [ok |-> TRUE, shape |-> shape, data |-> data, requires_grad |-> FALSE, err |-> "none"]
\* The result of a library call that raised: who raised.
Raised(where) ==
    [ok |-> FALSE, shape |-> <<>>, data |-> <<>>, requires_grad |-> FALSE, err |-> where]
NoTensor == Raised("unset")

RECURSIVE Prod(_)
Prod(s) == IF s = <<>> THEN 1 ELSE Head(s) * Prod(Tail(s))

Abs(n) == IF n < 0 THEN -n ELSE n

\* Conv2d / MaxPool2d(ceil_mode=False) output extent along one spatial
\* dimension.
ConvOut(n) == ((n + 2 * padding - kernel_size) \div stride) + 1
\* MaxPool2d(..., ceil_mode=True): the extent rounded up.
PoolOutCeil(n) == ((n - pool_kernel_size + pool_stride - 1) \div pool_stride) + 1
PoolOut(n) == ((n - pool_kernel_size) \div pool_stride) + 1

\* The abstract value of one row after a convolution block with weights p.
BlockRow(p, v, k) == (v + k * p) % FeatLevels

\* nn.Sequential(Conv2d(cin, cout, 5, 1, 2), ReLU(), MaxPool2d(2, 2)): the
\* convolution rejects an input with the wrong number of channels, the
\* pooling rejects an input it would reduce to nothing.
ConvBlock(x, p, cin, cout, k, name) ==
    IF ~x.ok THEN x
    ELSE IF Len(x.shape) # 4 \/ x.shape[2] # cin THEN Raised(name)
    ELSE LET h == ConvOut(x.shape[3])
             w == ConvOut(x.shape[4])
         IN IF h < 1 \/ w < 1 \/ PoolOut(h) < 1 \/ PoolOut(w) < 1
            THEN Raised(name)
            ELSE Tensor(<<x.shape[1], cout, PoolOut(h), PoolOut(w)>>,
                        [r \in 1..Len(x.data) |-> BlockRow(p, x.data[r], k)])

Layer1(x, p) == ConvBlock(x, p, in_channels, layer1_channels, 1, "layer1")
Layer2(x, p) == ConvBlock(x, p, layer1_channels, layer2_channels, 2, "layer2")

\* Tensor.reshape(rows, cols) where one of the two may be -1 (inferred).
\* Row r of the result holds the elements r*cols .. r*cols+cols-1 of the
\* flattened input; its abstract value is that of the input row its first
\* element comes from.
ReshapeTo(x, rows, cols) ==
    LET n == Prod(x.shape)
        per == n \div x.shape[1]
    IN IF rows = -1 /\ cols = -1 THEN Raised("reshape")
       ELSE IF rows = -1
            THEN IF cols < 1 \/ n % cols # 0 THEN Raised("reshape")
                 ELSE Tensor(<<n \div cols, cols>>,
                             [r \in 1..(n \div cols) |->
                                 x.data[(((r - 1) * cols) \div per) + 1]])
       ELSE IF cols = -1
            THEN IF rows < 1 \/ n % rows # 0 THEN Raised("reshape")
                 ELSE Tensor(<<rows, n \div rows>>,
                             [r \in 1..rows |->
                                 x.data[(((r - 1) * (n \div rows)) \div per) + 1]])
       ELSE IF rows * cols # n THEN Raised("reshape")
            ELSE Tensor(<<rows, cols>>,
                        [r \in 1..rows |-> x.data[(((r - 1) * cols) \div per) + 1]])

\* A plausible slip: out.reshape(-1, 7*7*32), the row count inferred.
ReshapeInferRows(x) == IF ~x.ok THEN x ELSE ReshapeTo(x, -1, fc1_in_features)
\* out = out.reshape(out.size(0), -1)
Reshape(x) == IF ~x.ok THEN x ELSE ReshapeTo(x, x.shape[1], -1)

\* The logits of one row: one score per class, largest at the class the
\* weights p map the row's feature v to.
RowLogits(p, v) ==
    [c \in 1..num_classes |-> num_classes - Abs((c - 1) - ((v + p) % num_classes))]

\* self.fc1 = nn.Linear(7*7*32, num_classes)
Fc1(x, p) ==
    IF ~x.ok THEN x
    ELSE IF x.shape[Len(x.shape)] # fc1_in_features THEN Raised("fc1")
    ELSE Tensor(<<x.shape[1], num_classes>>,
                [r \in 1..Len(x.data) |-> RowLogits(p, x.data[r])])

\* CNN.forward
Forward(x, p) == Fc1(Reshape(Layer2(Layer1(x, p), p)), p)

\* A model whose forward result depends on the autograd mode: under no_grad
\* it returns the same scores for every image.
ModelCallNoGradBlank(x, p, grad_mode) ==
    LET out == Forward(x, p)
    IN IF ~out.ok THEN out
       ELSE IF grad_mode THEN [out EXCEPT !.requires_grad = TRUE]
       ELSE Tensor(out.shape, [r \in 1..Len(out.data) |-> RowLogits(0, 0)])
\* model(images) under the current autograd mode: the values are those of
\* forward; the mode decides only whether the result carries a graph.
ModelCall(x, p, grad_mode) ==
    LET out == Forward(x, p)
    IN IF out.ok THEN [out EXCEPT !.requires_grad = grad_mode] ELSE out

(* ------------------------- loss and optimizer -------------------------- *)
\* A scalar attached to the graph of the forward pass, or a raised call.
Scalar(v, rg) == [ok |-> TRUE, value |-> v, requires_grad |-> rg, err |-> "none"]
NoScalar(where) == [ok |-> FALSE, value |-> 0, requires_grad |-> FALSE, err |-> where]

RECURSIVE SumTo(_, _)
SumTo(f, n) == IF n = 0 THEN 0 ELSE f[n] + SumTo(f, n - 1)

\* criterion = nn.CrossEntropyLoss(): one term per row, the score the
\* labelled class falls short of the best score by; rows and labels must
\* pair up and every label must name a class.
Criterion(out, lbls) ==
    IF ~out.ok THEN NoScalar(out.err)
    ELSE IF Len(out.shape) # 2 \/ out.shape[1] # Len(lbls) \/ Len(out.data) # Len(lbls)
            \/ \E r \in 1..Len(lbls) : lbls[r] < 0 \/ lbls[r] >= out.shape[2]
         THEN NoScalar("criterion")
    ELSE Scalar(SumTo([r \in 1..Len(lbls) |-> num_classes - out.data[r][lbls[r] + 1]],
                      Len(lbls)),
                out.requires_grad)

\* The gradient loss.backward() adds to the parameters' .grad.
GradOf(l) == l.value % ParamLevels

\* optimizer.zero_grad() left out: the gradients keep accumulating.
ZeroGradKeeps(g) == g
\* optimizer.zero_grad()
ZeroGrad(g) == 0

\* loss.backward(): accumulates into .grad.
Accumulate(g, l) == (g + GradOf(l)) % ParamLevels

\* torch.optim.Adam(model.parameters(), lr=0.001).step(): the running
\* average of the gradients, the step count and the new parameters.
AdamStep(st, g) ==
    LET m == (st.exp_avg + g) % ParamLevels
    IN [params |-> (st.params + ParamLevels - m) % ParamLevels,
        exp_avg |-> m,
        step |-> st.step + 1]

\* The parameters with the optimizer's state for them.
OptimizerState(p, opt) == [params |-> p, exp_avg |-> opt.exp_avg, step |-> opt.step]

\* One iteration of the training loop as a function of the optimizer state
\* and the batch: forward, loss, gradient of this batch alone, Adam.
TrainBatch(st, imgs, lbls) ==
    AdamStep(st, Accumulate(0, Criterion(ModelCall(imgs, st.params, TRUE), lbls)))

(* ------------------------------ the data ------------------------------- *)
\* datasets.MNIST(train=True / train=False): sample k has an abstract pixel
\* value and a class label (a fixed data set; three of the classes occur).
TrainSample(k) == [px |-> k % FeatLevels, label |-> (k + 1) % 3]
TestSample(k) == [px |-> (k + 1) % FeatLevels, label |-> k % 3]

\* The batches a DataLoader(batch_size=4, shuffle=True) can yield next when
\* the indices in left are still to come: any arrangement of
\* min(batch_size, |left|) of them.
NextBatches(left) ==
    LET n == IF Cardinality(left) < batch_size THEN Cardinality(left) ELSE batch_size
    IN {b \in [1..n -> left] : \A a, c \in 1..n : a # c => b[a] # b[c]}

\* len(DataLoader): the number of batches of a dataset of n samples.
NumBatches(n) == (n + batch_size - 1) \div batch_size

\* The collated batch of a sequence of samples: the image tensor and the
\* label vector, paired by position.
Images(samples) ==
    Tensor(<<Len(samples), in_channels, mnist_side, mnist_side>>,
           [r \in 1..Len(samples) |-> samples[r].px])
Labels(samples) == [r \in 1..Len(samples) |-> samples[r].label]

\* torch.max(outputs.data, 1): the index of the largest score of a row.
ArgMax(row) == CHOOSE c \in 1..Len(row) : \A d \in 1..Len(row) : row[d] <= row[c]
Predicted(out) == [r \in 1..Len(out.data) |-> ArgMax(out.data[r]) - 1]

\* Every row counted as right.
MatchesAll(pred, lbls) == Len(lbls)
\* (predicted == labels).sum().item()
Matches(pred, lbls) ==
    Cardinality({r \in 1..Len(lbls) : pred[r] = lbls[r]})

(* ------------------------------- state --------------------------------- *)
VARIABLES
    pc,            \* the statement the notebook is at
    failedAt,      \* the statement whose library call raised, "none" if none
    trainN, testN, \* len(train_dataset), len(test_dataset)
    params0,       \* the parameters CNN(10) was initialised with
    params,        \* model.parameters()
    grad,          \* the parameters' .grad
    optimizer,     \* Adam's state: exp_avg and step
    training,      \* model.training
    grad_enabled,  \* torch.is_grad_enabled()
    epoch, i,      \* the training loop's counters
    train_left,    \* indices train_data_loader's iterator has still to yield
    test_left,     \* the same for test_data_loader
    images, labels, outputs, loss,
    correct, total,
    printed,       \* the lines written to the console
    replay         \* TrainBatch folded over the batches trained on so far

vars == <<pc, failedAt, trainN, testN, params0, params, grad, optimizer, training,
          grad_enabled, epoch, i, train_left, test_left, images, labels, outputs,
          loss, correct, total, printed, replay>>

data_vars == <<trainN, testN, params0>>
model_vars == <<params, grad, optimizer, training>>
batch_vars == <<images, labels, outputs, loss>>
count_vars == <<correct, total>>

\* The statements whose library call can raise.
TrainSteps == {"to_device", "forward", "loss", "zero_grad", "backward", "step"}
EvalSteps == {"eval_to_device", "eval_forward", "eval_count"}
Raising == {"setup", "train_fetch", "eval_fetch"} \cup TrainSteps \cup EvalSteps

\* The statement after each statement of the training loop's body.
AfterTrainZeroLast(at) ==
    CASE at = "to_device" -> "forward"
      [] at = "forward" -> "loss"
      [] at = "loss" -> "backward"
      [] at = "backward" -> "zero_grad"
      [] at = "zero_grad" -> "step"
      [] at = "step" -> "train_fetch"
AfterTrain(at) ==
    CASE at = "to_device" -> "forward"
      [] at = "forward" -> "loss"
      [] at = "loss" -> "zero_grad"
      [] at = "zero_grad" -> "backward"
      [] at = "backward" -> "step"
      [] at = "step" -> "train_fetch"

\* range(num_epoch) with one epoch too many.
MoreEpochsInclusive(e) == e <= num_epoch
\* for epoch in range(num_epoch): whether epoch e is still to run.
MoreEpochs(e) == e < num_epoch

\* The quotient without the factor 100.
AccuracyFraction(c, t) == <<c, t>>
\* 100*correct/total, as numerator and denominator.
Accuracy(c, t) == <<100 * c, t>>

\* No try/except anywhere: an exception ends the run at the statement.
OnErrorSkipsBatch(at) ==
    IF at \in TrainSteps THEN "train_fetch"
    ELSE IF at \in EvalSteps THEN "eval_fetch" ELSE "failed"
OnError(at) == "failed"

Init ==
    /\ pc = "setup"
    /\ failedAt = "none"
    /\ trainN \in 0..MaxTrain
    /\ testN \in 0..MaxTest
    /\ params0 \in 0..(ParamLevels - 1)
    /\ params = params0
    /\ grad = 0
    /\ optimizer = [exp_avg |-> 0, step |-> 0]
    /\ training = TRUE
    /\ grad_enabled = TRUE
    /\ epoch = 0
    /\ i = 0
    /\ train_left = {}
    /\ test_left = {}
    /\ images = NoTensor
    /\ labels = <<>>
    /\ outputs = NoTensor
    /\ loss = NoScalar("unset")
    /\ correct = 0
    /\ total = 0
    /\ printed = <<>>
    /\ replay = [params |-> params0, exp_avg |-> 0, step |-> 0]

\* A library call raises: the exception leaves every with-block (restoring
\* the autograd mode) and ends the run.
Fail ==
    /\ pc \in Raising
    /\ pc' = OnError(pc)
    /\ failedAt' = pc
    /\ grad_enabled' = TRUE
    /\ UNCHANGED <<data_vars, model_vars, batch_vars, count_vars, epoch, i,
                   train_left, test_left, printed, replay>>

\* device .. print(total testing batch number): model, criterion, optimizer,
\* datasets and loaders are built and the two batch counts are printed.
Setup ==
    /\ pc = "setup"
    /\ printed' = printed \o <<[line |-> "train_batches", value |-> NumBatches(trainN)],
                               [line |-> "test_batches", value |-> NumBatches(testN)]>>
    /\ epoch' = 0
    /\ pc' = "epoch_head"
    /\ UNCHANGED <<failedAt, data_vars, model_vars, batch_vars, count_vars,
                   grad_enabled, i, train_left, test_left, replay>>

\* for epoch in range(num_epoch): a new iterator over train_data_loader for
\* each epoch, or the end of the training cell.
EpochHead ==
    /\ pc = "epoch_head"
    /\ IF MoreEpochs(epoch)
       THEN /\ train_left' = 1..trainN
            /\ i' = 0
            /\ pc' = "train_fetch"
       ELSE /\ pc' = "model_eval"
            /\ UNCHANGED <<train_left, i>>
    /\ UNCHANGED <<failedAt, data_vars, model_vars, batch_vars, count_vars,
                   grad_enabled, epoch, test_left, printed, replay>>

\* for i, (images, labels) in enumerate(train_data_loader): the next batch
\* in shuffled order, or the end of the epoch.
TrainFetch ==
    /\ pc = "train_fetch"
    /\ IF train_left = {}
       THEN /\ epoch' = epoch + 1
            /\ pc' = "epoch_head"
            /\ UNCHANGED <<i, train_left, images, labels>>
       ELSE \E b \in NextBatches(train_left) :
            /\ images' = Images([r \in 1..Len(b) |-> TrainSample(b[r])])
            /\ labels' = Labels([r \in 1..Len(b) |-> TrainSample(b[r])])
            /\ train_left' = train_left \ {b[r] : r \in 1..Len(b)}
            /\ i' = i + 1
            /\ pc' = "to_device"
            /\ UNCHANGED epoch
    /\ UNCHANGED <<failedAt, data_vars, model_vars, outputs, loss, count_vars,
                   grad_enabled, test_left, printed, replay>>

\* images = images.to(device); labels = labels.to(device)
ToDevice ==
    /\ pc = "to_device"
    /\ pc' = AfterTrain(pc)
    /\ UNCHANGED <<failedAt, data_vars, model_vars, batch_vars, count_vars,
                   grad_enabled, epoch, i, train_left, test_left, printed, replay>>

\* outputs = model(images)
TrainForward ==
    /\ pc = "forward"
    /\ IF ModelCall(images, params, grad_enabled).ok
       THEN /\ outputs' = ModelCall(images, params, grad_enabled)
            /\ pc' = AfterTrain(pc)
            /\ UNCHANGED failedAt
       ELSE /\ pc' = OnError(pc)
            /\ failedAt' = pc
            /\ UNCHANGED outputs
    /\ UNCHANGED <<data_vars, model_vars, images, labels, loss, count_vars,
                   grad_enabled, epoch, i, train_left, test_left, printed, replay>>

\* loss = criterion(outputs, labels)
TrainLoss ==
    /\ pc = "loss"
    /\ IF Criterion(outputs, labels).ok
       THEN /\ loss' = Criterion(outputs, labels)
            /\ pc' = AfterTrain(pc)
            /\ UNCHANGED failedAt
       ELSE /\ pc' = OnError(pc)
            /\ failedAt' = pc
            /\ UNCHANGED loss
    /\ UNCHANGED <<data_vars, model_vars, images, labels, outputs, count_vars,
                   grad_enabled, epoch, i, train_left, test_left, printed, replay>>

\* optimizer.zero_grad()
TrainZeroGrad ==
    /\ pc = "zero_grad"
    /\ grad' = ZeroGrad(grad)
    /\ pc' = AfterTrain(pc)
    /\ UNCHANGED <<failedAt, data_vars, params, optimizer, training, batch_vars,
                   count_vars, grad_enabled, epoch, i, train_left, test_left,
                   printed, replay>>

\* loss.backward(): raises on a loss that carries no graph.
TrainBackward ==
    /\ pc = "backward"
    /\ IF loss.requires_grad
       THEN /\ grad' = Accumulate(grad, loss)
            /\ pc' = AfterTrain(pc)
            /\ UNCHANGED failedAt
       ELSE /\ pc' = OnError(pc)
            /\ failedAt' = pc
            /\ UNCHANGED grad
    /\ UNCHANGED <<data_vars, params, optimizer, training, batch_vars, count_vars,
                   grad_enabled, epoch, i, train_left, test_left, printed, replay>>

\* optimizer.step()
TrainStep ==
    /\ pc = "step"
    /\ params' = AdamStep(OptimizerState(params, optimizer), grad).params
    /\ optimizer' = [exp_avg |-> AdamStep(OptimizerState(params, optimizer), grad).exp_avg,
                     step |-> AdamStep(OptimizerState(params, optimizer), grad).step]
    /\ replay' = TrainBatch(replay, images, labels)
    /\ pc' = AfterTrain(pc)
    /\ UNCHANGED <<failedAt, data_vars, grad, training, batch_vars, count_vars,
                   grad_enabled, epoch, i, train_left, test_left, printed>>
\* The evaluation cell preceded by a fresh CNN(10): the trained parameters
\* are replaced by the initial ones.
ModelEvalRebuilds ==
    /\ pc = "model_eval"
    /\ training' = FALSE
    /\ params' = params0
    /\ pc' = "eval_init"
    /\ UNCHANGED <<failedAt, data_vars, grad, optimizer, batch_vars,
                   count_vars, grad_enabled, epoch, i, train_left, test_left,
                   printed, replay>>

\* model.eval()
ModelEval ==
    /\ pc = "model_eval"
    /\ training' = FALSE
    /\ pc' = "eval_init"
    /\ UNCHANGED <<failedAt, data_vars, params, grad, optimizer, batch_vars,
                   count_vars, grad_enabled, epoch, i, train_left, test_left,
                   printed, replay>>

\* with torch.no_grad(): correct = 0; total = 0; iter(test_data_loader)
EvalInit ==
    /\ pc = "eval_init"
    /\ grad_enabled' = FALSE
    /\ correct' = 0
    /\ total' = 0
    /\ test_left' = 1..testN
    /\ pc' = "eval_fetch"
    /\ UNCHANGED <<failedAt, data_vars, model_vars, batch_vars, epoch, i,
                   train_left, printed, replay>>

\* for images, labels in test_data_loader: the next batch in shuffled
\* order, or the end of the loop.
EvalFetch ==
    /\ pc = "eval_fetch"
    /\ IF test_left = {}
       THEN /\ pc' = "print"
            /\ UNCHANGED <<test_left, images, labels>>
       ELSE \E b \in NextBatches(test_left) :
            /\ images' = Images([r \in 1..Len(b) |-> TestSample(b[r])])
            /\ labels' = Labels([r \in 1..Len(b) |-> TestSample(b[r])])
            /\ test_left' = test_left \ {b[r] : r \in 1..Len(b)}
            /\ pc' = "eval_to_device"
    /\ UNCHANGED <<failedAt, data_vars, model_vars, outputs, loss, count_vars,
                   grad_enabled, epoch, i, train_left, printed, replay>>

\* images=images.to(device); labels=labels.to(device)
EvalToDevice ==
    /\ pc = "eval_to_device"
    /\ pc' = "eval_forward"
    /\ UNCHANGED <<failedAt, data_vars, model_vars, batch_vars, count_vars,
                   grad_enabled, epoch, i, train_left, test_left, printed, replay>>

\* outputs = model(images)
EvalForward ==
    /\ pc = "eval_forward"
    /\ IF ModelCall(images, params, grad_enabled).ok
       THEN /\ outputs' = ModelCall(images, params, grad_enabled)
            /\ pc' = "eval_count"
            /\ UNCHANGED <<failedAt, grad_enabled>>
       ELSE /\ pc' = OnError(pc)
            /\ failedAt' = pc
            /\ grad_enabled' = TRUE
            /\ UNCHANGED outputs
    /\ UNCHANGED <<data_vars, model_vars, images, labels, loss, count_vars,
                   epoch, i, train_left, test_left, printed, replay>>

\* _, predicted = torch.max(outputs.data, 1); total += labels.size(0);
\* correct += (predicted==labels).sum().item()
EvalCount ==
    /\ pc = "eval_count"
    /\ total' = total + Len(labels)
    /\ correct' = correct + Matches(Predicted(outputs), labels)
    /\ pc' = "eval_fetch"
    /\ UNCHANGED <<failedAt, data_vars, model_vars, batch_vars, grad_enabled,
                   epoch, i, train_left, test_left, printed, replay>>

\* print('ACC: {}%'.format(100*correct/total)): the quotient as the pair of
\* its numerator and denominator; dividing by zero raises.  Leaving the
\* with-block restores the autograd mode either way.
PrintAcc ==
    /\ pc = "print"
    /\ grad_enabled' = TRUE
    /\ IF total = 0
       THEN /\ pc' = OnError(pc)
            /\ failedAt' = pc
            /\ UNCHANGED printed
       ELSE /\ printed' = Append(printed, [line |-> "ACC",
                                           value |-> Accuracy(correct, total)])
            /\ pc' = "done"
            /\ UNCHANGED failedAt
    /\ UNCHANGED <<data_vars, model_vars, batch_vars, count_vars, epoch, i,
                   train_left, test_left, replay>>

Next ==
    \/ Setup \/ EpochHead \/ TrainFetch \/ ToDevice \/ TrainForward \/ TrainLoss
    \/ TrainZeroGrad \/ TrainBackward \/ TrainStep
    \/ ModelEval \/ EvalInit \/ EvalFetch \/ EvalToDevice \/ EvalForward
    \/ EvalCount \/ PrintAcc
    \/ Fail

Spec == Init /\ [][Next]_vars

(* ----------------- the forward pass on its own, any shape -------------- *)
\* CNN.forward statement by statement on an input of any batch size,
\* channel count, height and width; pc names the statement to run next.
InputBatches ==
    {Tensor(<<b, c, h, w>>, [r \in 1..b |-> (r - 1) % FeatLevels]) :
        b \in 1..MaxBatch, c \in 1..MaxChannels, h \in 1..MaxDim, w \in 1..MaxDim}

InitForward ==
    /\ pc = "fwd_layer1"
    /\ failedAt = "none"
    /\ trainN = 0
    /\ testN = 0
    /\ params0 \in 0..(ParamLevels - 1)
    /\ params = params0
    /\ grad = 0
    /\ optimizer = [exp_avg |-> 0, step |-> 0]
    /\ training = TRUE
    /\ grad_enabled = TRUE
    /\ epoch = 0
    /\ i = 0
    /\ train_left = {}
    /\ test_left = {}
    /\ images \in InputBatches
    /\ labels = <<>>
    /\ outputs = NoTensor
    /\ loss = NoScalar("unset")
    /\ correct = 0
    /\ total = 0
    /\ printed = <<>>
    /\ replay = [params |-> params0, exp_avg |-> 0, step |-> 0]

\* One statement of forward: out becomes result, or the call raises.
FwdGoes(result, next) ==
    /\ outputs' = result
    /\ IF result.ok
       THEN pc' = next /\ UNCHANGED failedAt
       ELSE pc' = "fwd_raised" /\ failedAt' = result.err
    /\ UNCHANGED <<data_vars, model_vars, images, labels, loss, count_vars,
                   grad_enabled, epoch, i, train_left, test_left, printed, replay>>

\* out = self.layer1(x)
FwdLayer1 == pc = "fwd_layer1" /\ FwdGoes(Layer1(images, params), "fwd_layer2")
\* out = self.layer2(out)
FwdLayer2 == pc = "fwd_layer2" /\ FwdGoes(Layer2(outputs, params), "fwd_reshape")
\* out = out.reshape(out.size(0), -1)
FwdReshape == pc = "fwd_reshape" /\ FwdGoes(Reshape(outputs), "fwd_fc1")
\* out = self.fc1(out); return out
FwdFc1 == pc = "fwd_fc1" /\ FwdGoes(Fc1(outputs, params), "fwd_returned")

NextForward == FwdLayer1 \/ FwdLayer2 \/ FwdReshape \/ FwdFc1

SpecForward == InitForward /\ [][NextForward]_vars

(* ============================ properties =============================== *)

\* The statements of forward after which out holds a tensor.
FwdAfterLayer == {"fwd_layer2", "fwd_reshape", "fwd_fc1", "fwd_returned"}

\* The scores forward gives one image of abstract value v, computed for the
\* image alone.
RowScores(p, v) == Forward(Tensor(<<1, in_channels, mnist_side, mnist_side>>, <<v>>), p).data[1]

\* C1: on every input batch of B >= 1 images on which forward returns, the
\* result has B rows and num_classes columns, row r holding the scores of
\* input image r; and after each statement of forward (layer1, layer2,
\* reshape, fc1) the batch dimension of out is that of the input.
C1_BatchDimensionPreserved ==
    /\ pc \in FwdAfterLayer =>
          /\ outputs.ok
          /\ outputs.shape[1] = images.shape[1]
          /\ Len(outputs.data) = images.shape[1]
    /\ pc = "fwd_returned" =>
          /\ outputs.shape = <<images.shape[1], num_classes>>
          /\ \A r \in 1..images.shape[1] :
                outputs.data[r] = RowScores(params, images.data[r])

\* C1 witness: forward has returned on a batch of more than one image whose
\* rows differ.
C1_Witness ==
    /\ pc = "fwd_returned"
    /\ images.shape[1] > 1
    /\ outputs.data[1] # outputs.data[2]

\* The extent a height or width of n is left with after both blocks (a 5x5
\* convolution with stride 1 and padding 2 keeps it, a 2x2 pooling with
\* stride 2 halves it, rounding down).
Halved(n) == (n \div 2) \div 2
\* The length of a row of the flattened feature map of a 1 x h x w image.
FlatLen(h, w) == 32 * Halved(h) * Halved(w)

\* The shapes of the notebook's images through forward.
C9_MnistShapes ==
    (images.shape[2] = 1 /\ images.shape[3] = 28 /\ images.shape[4] = 28) =>
        /\ pc \notin {"fwd_raised"}
        /\ pc = "fwd_layer2" => outputs.shape = <<images.shape[1], 16, 14, 14>>
        /\ pc = "fwd_reshape" => outputs.shape = <<images.shape[1], 32, 7, 7>>
        /\ pc = "fwd_fc1" => outputs.shape = <<images.shape[1], 1568>>
        /\ pc = "fwd_returned" => outputs.shape = <<images.shape[1], num_classes>>

\* C9 as claimed: the shapes 1x28x28 -> 16x14x14 -> 32x7x7 -> 1568 ->
\* num_classes, and every 1-channel input whose height or width makes the
\* flattened length differ from 1568 fails at fc1.
C9_Original ==
    /\ C9_MnistShapes
    /\ (images.shape[2] = 1 /\ FlatLen(images.shape[3], images.shape[4]) # 1568) =>
          /\ pc # "fwd_returned"
          /\ pc = "fwd_raised" => failedAt = "fc1"

\* C9 amended: the shapes 1x28x28 -> 16x14x14 -> 32x7x7 -> 1568 ->
\* num_classes; a 1-channel input whose height or width makes the flattened
\* length differ from 1568 never returns from forward: it fails at fc1 when
\* height and width are both at least 4, and earlier, at the pooling of
\* layer1 (a height or width of 1) or of layer2 (a height or width of 2 or
\* 3), when a pooling would leave nothing.
C9_ShapesAndMismatch ==
    /\ C9_MnistShapes
    /\ (images.shape[2] = 1 /\ FlatLen(images.shape[3], images.shape[4]) # 1568) =>
          /\ pc # "fwd_returned"
          /\ pc = "fwd_raised" =>
                failedAt = IF images.shape[3] < 2 \/ images.shape[4] < 2 THEN "layer1"
                           ELSE IF images.shape[3] < 4 \/ images.shape[4] < 4 THEN "layer2"
                           ELSE "fc1"
    /\ (pc = "fwd_returned" /\ images.shape[2] = 1) =>
          FlatLen(images.shape[3], images.shape[4]) = 1568

\* C9 witness: a 1-channel input of another size has failed at fc1.
C9_Witness ==
    /\ pc = "fwd_raised"
    /\ failedAt = "fc1"
    /\ images.shape[2] = 1
    /\ images.shape[3] # 28

(* --------------------- the whole notebook (Spec) ----------------------- *)
\* The statements after the training cell.
PostTraining == {"model_eval", "eval_init", "eval_fetch", "eval_to_device",
                 "eval_forward", "eval_count", "print", "done"}
\* The statements of the evaluation loop that hold a batch.
InEvalBatch == {"eval_to_device", "eval_forward", "eval_count"}
\* The number of batches the training loader has yielded so far.
BatchesFetched == epoch * NumBatches(trainN) + i
\* The number of accuracy lines on the console.
AccLines == Cardinality({n \in 1..Len(printed) : printed[n].line = "ACC"})

C4_Then(at) ==
    CASE at = "to_device" -> "forward"
      [] at = "forward" -> "loss"
      [] at = "loss" -> "zero_grad"
      [] at = "zero_grad" -> "backward"
      [] at = "backward" -> "step"
      [] at = "step" -> "train_fetch"

C4_State ==
    /\ pc \in TrainSteps => optimizer.step + 1 = BatchesFetched
    /\ pc = "train_fetch" => optimizer.step = BatchesFetched
    /\ pc = "backward" => grad = 0
    /\ pc = "step" => grad = GradOf(Criterion(ModelCall(images, params, TRUE), labels))

C4_Step ==
    /\ pc \in TrainSteps =>
          /\ pc' \in {C4_Then(pc), "failed"}
          /\ UNCHANGED <<images, labels, epoch, i, train_left>>
    /\ pc' = "to_device" => pc = "train_fetch"
    /\ (pc' = "train_fetch" /\ pc # "train_fetch") => pc \in {"step", "epoch_head"}

\* C4: every training batch goes through forward, loss, zero_grad, backward
\* and optimizer.step in that order, on one and the same batch; a batch is
\* fetched only when every batch before it has had its optimizer step; and
\* the gradient a step uses is that of the current batch alone (zero_grad
\* lies between the previous step and this backward).
C4_BatchStepsInOrder == [](C4_State) /\ [][C4_Step]_vars

\* C4 witness: the second batch of an epoch is about to take its step.
C4_Witness ==
    /\ pc = "step"
    /\ i = 2
    /\ optimizer.step >= 1
    /\ grad # 0

C5_State ==
    /\ pc \in PostTraining =>
          /\ epoch = num_epoch
          /\ optimizer.step = num_epoch * NumBatches(trainN)
    /\ optimizer.step <= num_epoch * NumBatches(trainN)
    /\ pc \in {"eval_fetch", "print", "done"} => total + Cardinality(test_left) = testN
    /\ pc \in InEvalBatch => total + Len(labels) + Cardinality(test_left) = testN
    /\ pc = "done" => total = testN /\ test_left = {}

C5_Step ==
    pc \in PostTraining =>
        /\ pc' \in PostTraining \cup {"failed"}
        /\ UNCHANGED <<params, optimizer, epoch, i, train_left>>

\* The statements a run that does not fail has still to execute: those
\* left of the current batch, of the current loop over the loader, of the
\* epochs to come and of the evaluation.
EvalLoopLeft(k) == 4 * NumBatches(k) + 2
EvalLeft ==
    CASE pc = "model_eval" -> 2 + EvalLoopLeft(testN)
      [] pc = "eval_init" -> 1 + EvalLoopLeft(testN)
      [] pc = "eval_fetch" -> EvalLoopLeft(Cardinality(test_left))
      [] pc = "eval_to_device" -> 3 + EvalLoopLeft(Cardinality(test_left))
      [] pc = "eval_forward" -> 2 + EvalLoopLeft(Cardinality(test_left))
      [] pc = "eval_count" -> 1 + EvalLoopLeft(Cardinality(test_left))
      [] pc = "print" -> 1
      [] OTHER -> 0
TrainLoopLeft(k) == 7 * NumBatches(k) + 1
EpochsLeft(n) == n * (1 + TrainLoopLeft(trainN)) + 3 + EvalLoopLeft(testN)
StatementsLeft ==
    CASE pc = "setup" -> 1 + EpochsLeft(num_epoch)
      [] pc = "epoch_head" -> EpochsLeft(num_epoch - epoch)
      [] pc = "train_fetch" ->
            TrainLoopLeft(Cardinality(train_left)) + EpochsLeft(num_epoch - epoch - 1)
      [] pc = "to_device" ->
            6 + TrainLoopLeft(Cardinality(train_left)) + EpochsLeft(num_epoch - epoch - 1)
      [] pc = "forward" ->
            5 + TrainLoopLeft(Cardinality(train_left)) + EpochsLeft(num_epoch - epoch - 1)
      [] pc = "loss" ->
            4 + TrainLoopLeft(Cardinality(train_left)) + EpochsLeft(num_epoch - epoch - 1)
      [] pc = "zero_grad" ->
            3 + TrainLoopLeft(Cardinality(train_left)) + EpochsLeft(num_epoch - epoch - 1)
      [] pc = "backward" ->
            2 + TrainLoopLeft(Cardinality(train_left)) + EpochsLeft(num_epoch - epoch - 1)
      [] pc = "step" ->
            1 + TrainLoopLeft(Cardinality(train_left)) + EpochsLeft(num_epoch - epoch - 1)
      [] OTHER -> EvalLeft

C5_Terminates ==
    /\ StatementsLeft' < StatementsLeft
    /\ failedAt' = "none" => StatementsLeft' = StatementsLeft - 1

\* C5: the run ends: every statement executed leaves one statement fewer to
\* execute, and none is left only at done or failed.  It makes num_epoch
\* passes over the training loader and num_epoch * (number of training
\* batches) optimizer steps; the evaluation pass starts only after the last
\* of them, counts every test sample exactly once, and no training step
\* follows it.
C5_RunsToCompletion ==
    /\ [](C5_State)
    /\ [](StatementsLeft >= 0 /\ (StatementsLeft = 0 <=> pc \in {"done", "failed"}))
    /\ [][C5_Step /\ C5_Terminates]_vars

\* C5 witness: a run over several training and test batches has finished.
C5_Witness ==
    /\ pc = "done"
    /\ NumBatches(trainN) > 1
    /\ NumBatches(testN) > 1
    /\ optimizer.step = num_epoch * NumBatches(trainN)

C6_Step ==
    /\ (params' # params \/ optimizer' # optimizer) =>
          /\ pc = "step"
          /\ optimizer'.step = optimizer.step + 1
    /\ pc # "step" => UNCHANGED <<params, optimizer>>

\* C6: the parameters (and the optimizer state) are written by
\* optimizer.step alone, once per training batch; forward, loss, zero_grad,
\* backward, model.eval() and the evaluation pass leave them as they are, so
\* at the end of the evaluation they are what the last training step left.
C6_OnlyStepWritesParams ==
    /\ [][C6_Step]_vars
    /\ [](pc = "train_fetch" => optimizer.step = BatchesFetched)
    /\ [](pc \in PostTraining => params = replay.params)

\* C6 witness: the evaluation has ended on parameters training has moved.
C6_Witness ==
    /\ pc = "done"
    /\ ~training
    /\ optimizer.step > 0
    /\ params # params0

\* The test samples the evaluation loop has counted so far.
Counted == (1..testN) \ test_left
\* Whether the model's prediction for test sample k is its label.
Right(k) == ArgMax(RowScores(params, TestSample(k).px)) - 1 = TestSample(k).label

C7_State ==
    /\ 0 <= correct /\ correct <= total
    /\ pc \in {"setup", "epoch_head", "train_fetch", "model_eval", "eval_init"}
             \cup TrainSteps => correct = 0 /\ total = 0
    /\ pc \in {"eval_fetch", "print", "done"} =>
          /\ total = Cardinality(Counted)
          /\ correct = Cardinality({k \in Counted : Right(k)})
    /\ pc \in {"print", "done"} => total = testN

C7_Step ==
    /\ correct' >= correct /\ total' >= total
    /\ <<correct, total>>' # <<correct, total>> => pc = "eval_count"

\* C7: the evaluation starts at correct = 0 and total = 0; after each test
\* batch total is the number of samples counted so far and correct the
\* number of them predicted right; 0 <= correct <= total throughout,
\* neither counter decreases, total ends at the size of the test set, and
\* only the evaluation loop changes them.
C7_CountersTrackEvaluation == [](C7_State) /\ [][C7_Step]_vars

\* C7 witness: the evaluation ended with some, not all, predictions right.
C7_Witness ==
    /\ pc = "done"
    /\ 0 < correct
    /\ correct < total

C8_State ==
    /\ failedAt # "none" =>
          /\ pc = "failed"
          /\ AccLines = 0
    /\ pc = "failed" => failedAt # "none"
    /\ failedAt \in {"forward", "loss", "backward"} =>
          /\ params = replay.params
          /\ optimizer.step = replay.step
          /\ optimizer.step + 1 = BatchesFetched

C8_Step ==
    /\ failedAt = "none"
    /\ failedAt' # "none" => UNCHANGED <<params, optimizer, epoch, i, train_left,
                                         test_left, correct, total, printed>>

\* C8: a statement that raises ends the run there: nothing runs after it (no
\* retry, no later batch or epoch, no evaluation), no accuracy is printed,
\* and when forward, loss or backward of a batch raises, the parameters are
\* those the previous batch's optimizer step left.
C8_FailureEndsRun == [](C8_State) /\ [][C8_Step]_vars

\* C8 witness: backward raised on a batch after an earlier batch's step.
C8_Witness ==
    /\ pc = "failed"
    /\ failedAt = "backward"
    /\ optimizer.step >= 1
    /\ params # params0

C10_State ==
    /\ AccLines = (IF pc = "done" THEN 1 ELSE 0)
    /\ pc = "done" =>
          /\ printed[Len(printed)].line = "ACC"
          /\ printed[Len(printed)].value = <<100 * correct, total>>
          /\ total = testN /\ testN > 0 /\ test_left = {}
          /\ 0 <= 100 * correct /\ 100 * correct <= 100 * total
    /\ failedAt = "print" => testN = 0 /\ total = 0
    /\ (pc = "print" /\ testN = 0) => total = 0

C10_Step ==
    /\ printed' # printed => pc \in {"setup", "print"}
    /\ pc = "print" =>
          IF testN = 0 THEN pc' = "failed" /\ failedAt' = "print" /\ printed' = printed
          ELSE pc' = "done"

\* C10: the accuracy is printed once, after the last test batch was
\* counted, as 100*correct/total, a value from 0 to 100; with an empty test
\* set nothing is printed and the print statement raises on the division
\* by zero.
C10_AccuracyPrintedOnce == [](C10_State) /\ [][C10_Step]_vars

\* C10 witness: the print statement raised on an empty test set.
C10_Witness ==
    /\ pc = "failed"
    /\ failedAt = "print"
    /\ testN = 0
    /\ optimizer.step > 0

=============================================================================
